---- MODULE Spec2Model ----
(***************************************************************************)
(* A model of the Crack Bank API (src/main.py): the corpus load at import, *)
(* the /check-breach-hash handler and the /summarize-breach handler.       *)
(*                                                                         *)
(* Conventions.  A Python string that the code inspects character by       *)
(* character (the submitted hash) is a sequence of Unicode code points.    *)
(* An optional value (a missing JSON key, a Body(None) parameter, an unset *)
(* environment variable) is a sequence of length 0 (None) or 1 (the        *)
(* value).  A dict in insertion order (the corpus) is a sequence of        *)
(* [name, info] pairs with distinct names.                                 *)
(***************************************************************************)
EXTENDS Integers, Sequences, FiniteSets, TLC

VARIABLES
    file,             \* breaches.json on disk when the module is imported
    proc,             \* "starting", "running", or "crashed" (import raised)
    BREACH_DATABASE,  \* module-level corpus, line 38
    env_key,          \* os.getenv("GOOGLE_API_KEY"), optional
    pc,               \* position of the check_breach_hash handler: "idle",
                      \* "scanned", "notified", or "done" (it has answered)
    req,              \* arguments of the current / last check_breach_hash call
    user_hash,        \* line 66
    found_breaches,   \* line 70..80
    notified,         \* calls of send_breach_notification made by this call
    resp,             \* what the current / last check_breach_hash call answered
    last_ok,          \* (user_hash, breaches) of the last call that returned
    sreq,             \* arguments of the last summarize_breach_with_ai call
    ai_calls,         \* requests.post calls made by the last summarize call
    sresp             \* what the last summarize_breach_with_ai call answered

vars == <<file, proc, BREACH_DATABASE, env_key, pc, req, user_hash,
          found_breaches, notified, resp, last_ok, sreq, ai_calls, sresp>>

checkVars == <<pc, req, user_hash, found_breaches, notified, resp, last_ok>>
sumVars == <<sreq, ai_calls, sresp>>

(***************************************************************************)
(* Bounds of the model.                                                    *)
(***************************************************************************)
MaxLeaked == 2     \* longest leaked_details list of a corpus record
MaxBreaches == 2   \* longest breach_data list sent to /summarize-breach

(***************************************************************************)
(* Optional values.                                                        *)
(***************************************************************************)
None == <<>>
Some(x) == <<x>>
\* dict.get(key, default) on an optional field
Get(opt, default) == IF opt = None THEN default ELSE opt[1]
\* Python truthiness of an Optional[str]: None and "" are falsy
Truthy(opt) == opt # None /\ opt[1] # ""

SeqUpTo(S, n) == UNION {[1..k -> S] : k \in 0..n}

(***************************************************************************)
(* str.lower() and str.strip().  A character is its Unicode code point.    *)
(***************************************************************************)
\* str.isspace(): the characters str.strip() removes, as ranges <<first, last>>
WhitespaceRanges ==
    {<<9,13>>, <<28,32>>, <<133,133>>, <<160,160>>, <<5760,5760>>, <<8192,8202>>, <<8232,8233>>,
     <<8239,8239>>, <<8287,8287>>, <<12288,12288>>}

\* the characters whose lower-case form is one other character, as
\* <<first, last, step, offset>>: every step-th character from first to last
\* lowers to itself plus offset (Unicode 14.0.0)
LowerRanges ==
    {<<65,90,1,32>>, <<192,214,1,32>>, <<216,222,1,32>>, <<256,302,2,1>>,
     <<306,310,2,1>>, <<313,327,2,1>>, <<330,374,2,1>>, <<376,376,1,-121>>,
     <<377,381,2,1>>, <<385,385,1,210>>, <<386,388,2,1>>, <<390,390,1,206>>,
     <<391,391,1,1>>, <<393,394,1,205>>, <<395,395,1,1>>, <<398,398,1,79>>,
     <<399,399,1,202>>, <<400,400,1,203>>, <<401,401,1,1>>, <<403,403,1,205>>,
     <<404,404,1,207>>, <<406,406,1,211>>, <<407,407,1,209>>, <<408,408,1,1>>,
     <<412,412,1,211>>, <<413,413,1,213>>, <<415,415,1,214>>, <<416,420,2,1>>,
     <<422,422,1,218>>, <<423,423,1,1>>, <<425,425,1,218>>, <<428,428,1,1>>,
     <<430,430,1,218>>, <<431,431,1,1>>, <<433,434,1,217>>, <<435,437,2,1>>,
     <<439,439,1,219>>, <<440,440,1,1>>, <<444,444,1,1>>, <<452,452,1,2>>,
     <<453,453,1,1>>, <<455,455,1,2>>, <<456,456,1,1>>, <<458,458,1,2>>,
     <<459,475,2,1>>, <<478,494,2,1>>, <<497,497,1,2>>, <<498,500,2,1>>,
     <<502,502,1,-97>>, <<503,503,1,-56>>, <<504,542,2,1>>, <<544,544,1,-130>>,
     <<546,562,2,1>>, <<570,570,1,10795>>, <<571,571,1,1>>, <<573,573,1,-163>>,
     <<574,574,1,10792>>, <<577,577,1,1>>, <<579,579,1,-195>>, <<580,580,1,69>>,
     <<581,581,1,71>>, <<582,590,2,1>>, <<880,882,2,1>>, <<886,886,1,1>>,
     <<895,895,1,116>>, <<902,902,1,38>>, <<904,906,1,37>>, <<908,908,1,64>>,
     <<910,911,1,63>>, <<913,929,1,32>>, <<932,939,1,32>>, <<975,975,1,8>>,
     <<984,1006,2,1>>, <<1012,1012,1,-60>>, <<1015,1015,1,1>>, <<1017,1017,1,-7>>,
     <<1018,1018,1,1>>, <<1021,1023,1,-130>>, <<1024,1039,1,80>>, <<1040,1071,1,32>>,
     <<1120,1152,2,1>>, <<1162,1214,2,1>>, <<1216,1216,1,15>>, <<1217,1229,2,1>>,
     <<1232,1326,2,1>>, <<1329,1366,1,48>>, <<4256,4293,1,7264>>, <<4295,4295,1,7264>>,
     <<4301,4301,1,7264>>, <<5024,5103,1,38864>>, <<5104,5109,1,8>>, <<7312,7354,1,-3008>>,
     <<7357,7359,1,-3008>>, <<7680,7828,2,1>>, <<7838,7838,1,-7615>>, <<7840,7934,2,1>>,
     <<7944,7951,1,-8>>, <<7960,7965,1,-8>>, <<7976,7983,1,-8>>, <<7992,7999,1,-8>>,
     <<8008,8013,1,-8>>, <<8025,8031,2,-8>>, <<8040,8047,1,-8>>, <<8072,8079,1,-8>>,
     <<8088,8095,1,-8>>, <<8104,8111,1,-8>>, <<8120,8121,1,-8>>, <<8122,8123,1,-74>>,
     <<8124,8124,1,-9>>, <<8136,8139,1,-86>>, <<8140,8140,1,-9>>, <<8152,8153,1,-8>>,
     <<8154,8155,1,-100>>, <<8168,8169,1,-8>>, <<8170,8171,1,-112>>, <<8172,8172,1,-7>>,
     <<8184,8185,1,-128>>, <<8186,8187,1,-126>>, <<8188,8188,1,-9>>, <<8486,8486,1,-7517>>,
     <<8490,8490,1,-8383>>, <<8491,8491,1,-8262>>, <<8498,8498,1,28>>, <<8544,8559,1,16>>,
     <<8579,8579,1,1>>, <<9398,9423,1,26>>, <<11264,11311,1,48>>, <<11360,11360,1,1>>,
     <<11362,11362,1,-10743>>, <<11363,11363,1,-3814>>, <<11364,11364,1,-10727>>, <<11367,11371,2,1>>,
     <<11373,11373,1,-10780>>, <<11374,11374,1,-10749>>, <<11375,11375,1,-10783>>, <<11376,11376,1,-10782>>,
     <<11378,11378,1,1>>, <<11381,11381,1,1>>, <<11390,11391,1,-10815>>, <<11392,11490,2,1>>,
     <<11499,11501,2,1>>, <<11506,11506,1,1>>, <<42560,42604,2,1>>, <<42624,42650,2,1>>,
     <<42786,42798,2,1>>, <<42802,42862,2,1>>, <<42873,42875,2,1>>, <<42877,42877,1,-35332>>,
     <<42878,42886,2,1>>, <<42891,42891,1,1>>, <<42893,42893,1,-42280>>, <<42896,42898,2,1>>,
     <<42902,42920,2,1>>, <<42922,42922,1,-42308>>, <<42923,42923,1,-42319>>, <<42924,42924,1,-42315>>,
     <<42925,42925,1,-42305>>, <<42926,42926,1,-42308>>, <<42928,42928,1,-42258>>, <<42929,42929,1,-42282>>,
     <<42930,42930,1,-42261>>, <<42931,42931,1,928>>, <<42932,42946,2,1>>, <<42948,42948,1,-48>>,
     <<42949,42949,1,-42307>>, <<42950,42950,1,-35384>>, <<42951,42953,2,1>>, <<42960,42960,1,1>>,
     <<42966,42968,2,1>>, <<42997,42997,1,1>>, <<65313,65338,1,32>>, <<66560,66599,1,40>>,
     <<66736,66771,1,40>>, <<66928,66938,1,39>>, <<66940,66954,1,39>>, <<66956,66962,1,39>>,
     <<66964,66965,1,39>>, <<68736,68786,1,64>>, <<71840,71871,1,32>>, <<93760,93791,1,32>>,
     <<125184,125217,1,34>>}

\* the case-ignorable characters, as ranges <<first, last>>
CaseIgnorableRanges ==
    {<<39,39>>, <<46,46>>, <<58,58>>, <<94,94>>, <<96,96>>, <<168,168>>,
     <<173,173>>, <<175,175>>, <<180,180>>, <<183,184>>, <<688,879>>, <<884,885>>,
     <<890,890>>, <<900,901>>, <<903,903>>, <<1155,1161>>, <<1369,1369>>, <<1375,1375>>,
     <<1425,1469>>, <<1471,1471>>, <<1473,1474>>, <<1476,1477>>, <<1479,1479>>, <<1524,1524>>,
     <<1536,1541>>, <<1552,1562>>, <<1564,1564>>, <<1600,1600>>, <<1611,1631>>, <<1648,1648>>,
     <<1750,1757>>, <<1759,1768>>, <<1770,1773>>, <<1807,1807>>, <<1809,1809>>, <<1840,1866>>,
     <<1958,1968>>, <<2027,2037>>, <<2042,2042>>, <<2045,2045>>, <<2070,2093>>, <<2137,2139>>,
     <<2184,2184>>, <<2192,2193>>, <<2200,2207>>, <<2249,2306>>, <<2362,2362>>, <<2364,2364>>,
     <<2369,2376>>, <<2381,2381>>, <<2385,2391>>, <<2402,2403>>, <<2417,2417>>, <<2433,2433>>,
     <<2492,2492>>, <<2497,2500>>, <<2509,2509>>, <<2530,2531>>, <<2558,2558>>, <<2561,2562>>,
     <<2620,2620>>, <<2625,2626>>, <<2631,2632>>, <<2635,2637>>, <<2641,2641>>, <<2672,2673>>,
     <<2677,2677>>, <<2689,2690>>, <<2748,2748>>, <<2753,2757>>, <<2759,2760>>, <<2765,2765>>,
     <<2786,2787>>, <<2810,2815>>, <<2817,2817>>, <<2876,2876>>, <<2879,2879>>, <<2881,2884>>,
     <<2893,2893>>, <<2901,2902>>, <<2914,2915>>, <<2946,2946>>, <<3008,3008>>, <<3021,3021>>,
     <<3072,3072>>, <<3076,3076>>, <<3132,3132>>, <<3134,3136>>, <<3142,3144>>, <<3146,3149>>,
     <<3157,3158>>, <<3170,3171>>, <<3201,3201>>, <<3260,3260>>, <<3263,3263>>, <<3270,3270>>,
     <<3276,3277>>, <<3298,3299>>, <<3328,3329>>, <<3387,3388>>, <<3393,3396>>, <<3405,3405>>,
     <<3426,3427>>, <<3457,3457>>, <<3530,3530>>, <<3538,3540>>, <<3542,3542>>, <<3633,3633>>,
     <<3636,3642>>, <<3654,3662>>, <<3761,3761>>, <<3764,3772>>, <<3782,3782>>, <<3784,3789>>,
     <<3864,3865>>, <<3893,3893>>, <<3895,3895>>, <<3897,3897>>, <<3953,3966>>, <<3968,3972>>,
     <<3974,3975>>, <<3981,3991>>, <<3993,4028>>, <<4038,4038>>, <<4141,4144>>, <<4146,4151>>,
     <<4153,4154>>, <<4157,4158>>, <<4184,4185>>, <<4190,4192>>, <<4209,4212>>, <<4226,4226>>,
     <<4229,4230>>, <<4237,4237>>, <<4253,4253>>, <<4348,4348>>, <<4957,4959>>, <<5906,5908>>,
     <<5938,5939>>, <<5970,5971>>, <<6002,6003>>, <<6068,6069>>, <<6071,6077>>, <<6086,6086>>,
     <<6089,6099>>, <<6103,6103>>, <<6109,6109>>, <<6155,6159>>, <<6211,6211>>, <<6277,6278>>,
     <<6313,6313>>, <<6432,6434>>, <<6439,6440>>, <<6450,6450>>, <<6457,6459>>, <<6679,6680>>,
     <<6683,6683>>, <<6742,6742>>, <<6744,6750>>, <<6752,6752>>, <<6754,6754>>, <<6757,6764>>,
     <<6771,6780>>, <<6783,6783>>, <<6823,6823>>, <<6832,6862>>, <<6912,6915>>, <<6964,6964>>,
     <<6966,6970>>, <<6972,6972>>, <<6978,6978>>, <<7019,7027>>, <<7040,7041>>, <<7074,7077>>,
     <<7080,7081>>, <<7083,7085>>, <<7142,7142>>, <<7144,7145>>, <<7149,7149>>, <<7151,7153>>,
     <<7212,7219>>, <<7222,7223>>, <<7288,7293>>, <<7376,7378>>, <<7380,7392>>, <<7394,7400>>,
     <<7405,7405>>, <<7412,7412>>, <<7416,7417>>, <<7468,7530>>, <<7544,7544>>, <<7579,7679>>,
     <<8125,8125>>, <<8127,8129>>, <<8141,8143>>, <<8157,8159>>, <<8173,8175>>, <<8189,8190>>,
     <<8203,8207>>, <<8216,8217>>, <<8228,8228>>, <<8231,8231>>, <<8234,8238>>, <<8288,8292>>,
     <<8294,8303>>, <<8305,8305>>, <<8319,8319>>, <<8336,8348>>, <<8400,8432>>, <<11388,11389>>,
     <<11503,11505>>, <<11631,11631>>, <<11647,11647>>, <<11744,11775>>, <<11823,11823>>, <<12293,12293>>,
     <<12330,12333>>, <<12337,12341>>, <<12347,12347>>, <<12441,12446>>, <<12540,12542>>, <<40981,40981>>,
     <<42232,42237>>, <<42508,42508>>, <<42607,42610>>, <<42612,42621>>, <<42623,42623>>, <<42652,42655>>,
     <<42736,42737>>, <<42752,42785>>, <<42864,42864>>, <<42888,42890>>, <<42994,42996>>, <<43000,43001>>,
     <<43010,43010>>, <<43014,43014>>, <<43019,43019>>, <<43045,43046>>, <<43052,43052>>, <<43204,43205>>,
     <<43232,43249>>, <<43263,43263>>, <<43302,43309>>, <<43335,43345>>, <<43392,43394>>, <<43443,43443>>,
     <<43446,43449>>, <<43452,43453>>, <<43471,43471>>, <<43493,43494>>, <<43561,43566>>, <<43569,43570>>,
     <<43573,43574>>, <<43587,43587>>, <<43596,43596>>, <<43632,43632>>, <<43644,43644>>, <<43696,43696>>,
     <<43698,43700>>, <<43703,43704>>, <<43710,43711>>, <<43713,43713>>, <<43741,43741>>, <<43756,43757>>,
     <<43763,43764>>, <<43766,43766>>, <<43867,43871>>, <<43881,43883>>, <<44005,44005>>, <<44008,44008>>,
     <<44013,44013>>, <<64286,64286>>, <<64434,64450>>, <<65024,65039>>, <<65043,65043>>, <<65056,65071>>,
     <<65106,65106>>, <<65109,65109>>, <<65279,65279>>, <<65287,65287>>, <<65294,65294>>, <<65306,65306>>,
     <<65342,65342>>, <<65344,65344>>, <<65392,65392>>, <<65438,65439>>, <<65507,65507>>, <<65529,65531>>,
     <<66045,66045>>, <<66272,66272>>, <<66422,66426>>, <<67456,67461>>, <<67463,67504>>, <<67506,67514>>,
     <<68097,68099>>, <<68101,68102>>, <<68108,68111>>, <<68152,68154>>, <<68159,68159>>, <<68325,68326>>,
     <<68900,68903>>, <<69291,69292>>, <<69446,69456>>, <<69506,69509>>, <<69633,69633>>, <<69688,69702>>,
     <<69744,69744>>, <<69747,69748>>, <<69759,69761>>, <<69811,69814>>, <<69817,69818>>, <<69821,69821>>,
     <<69826,69826>>, <<69837,69837>>, <<69888,69890>>, <<69927,69931>>, <<69933,69940>>, <<70003,70003>>,
     <<70016,70017>>, <<70070,70078>>, <<70089,70092>>, <<70095,70095>>, <<70191,70193>>, <<70196,70196>>,
     <<70198,70199>>, <<70206,70206>>, <<70367,70367>>, <<70371,70378>>, <<70400,70401>>, <<70459,70460>>,
     <<70464,70464>>, <<70502,70508>>, <<70512,70516>>, <<70712,70719>>, <<70722,70724>>, <<70726,70726>>,
     <<70750,70750>>, <<70835,70840>>, <<70842,70842>>, <<70847,70848>>, <<70850,70851>>, <<71090,71093>>,
     <<71100,71101>>, <<71103,71104>>, <<71132,71133>>, <<71219,71226>>, <<71229,71229>>, <<71231,71232>>,
     <<71339,71339>>, <<71341,71341>>, <<71344,71349>>, <<71351,71351>>, <<71453,71455>>, <<71458,71461>>,
     <<71463,71467>>, <<71727,71735>>, <<71737,71738>>, <<71995,71996>>, <<71998,71998>>, <<72003,72003>>,
     <<72148,72151>>, <<72154,72155>>, <<72160,72160>>, <<72193,72202>>, <<72243,72248>>, <<72251,72254>>,
     <<72263,72263>>, <<72273,72278>>, <<72281,72283>>, <<72330,72342>>, <<72344,72345>>, <<72752,72758>>,
     <<72760,72765>>, <<72767,72767>>, <<72850,72871>>, <<72874,72880>>, <<72882,72883>>, <<72885,72886>>,
     <<73009,73014>>, <<73018,73018>>, <<73020,73021>>, <<73023,73029>>, <<73031,73031>>, <<73104,73105>>,
     <<73109,73109>>, <<73111,73111>>, <<73459,73460>>, <<78896,78904>>, <<92912,92916>>, <<92976,92982>>,
     <<92992,92995>>, <<94031,94031>>, <<94095,94111>>, <<94176,94177>>, <<94179,94180>>, <<110576,110579>>,
     <<110581,110587>>, <<110589,110590>>, <<113821,113822>>, <<113824,113827>>, <<118528,118573>>, <<118576,118598>>,
     <<119143,119145>>, <<119155,119170>>, <<119173,119179>>, <<119210,119213>>, <<119362,119364>>, <<121344,121398>>,
     <<121403,121452>>, <<121461,121461>>, <<121476,121476>>, <<121499,121503>>, <<121505,121519>>, <<122880,122886>>,
     <<122888,122904>>, <<122907,122913>>, <<122915,122916>>, <<122918,122922>>, <<123184,123197>>, <<123566,123566>>,
     <<123628,123631>>, <<125136,125142>>, <<125252,125259>>, <<127995,127999>>, <<917505,917505>>, <<917536,917631>>,
     <<917760,917999>>}

\* the cased characters that are not case-ignorable, as ranges <<first, last>>
CasedRanges ==
    {<<65,90>>, <<97,122>>, <<170,170>>, <<181,181>>, <<186,186>>, <<192,214>>,
     <<216,246>>, <<248,442>>, <<444,447>>, <<452,659>>, <<661,687>>, <<880,883>>,
     <<886,887>>, <<891,893>>, <<895,895>>, <<902,902>>, <<904,906>>, <<908,908>>,
     <<910,929>>, <<931,1013>>, <<1015,1153>>, <<1162,1327>>, <<1329,1366>>, <<1376,1416>>,
     <<4256,4293>>, <<4295,4295>>, <<4301,4301>>, <<4304,4346>>, <<4349,4351>>, <<5024,5109>>,
     <<5112,5117>>, <<7296,7304>>, <<7312,7354>>, <<7357,7359>>, <<7424,7467>>, <<7531,7543>>,
     <<7545,7578>>, <<7680,7957>>, <<7960,7965>>, <<7968,8005>>, <<8008,8013>>, <<8016,8023>>,
     <<8025,8025>>, <<8027,8027>>, <<8029,8029>>, <<8031,8061>>, <<8064,8116>>, <<8118,8124>>,
     <<8126,8126>>, <<8130,8132>>, <<8134,8140>>, <<8144,8147>>, <<8150,8155>>, <<8160,8172>>,
     <<8178,8180>>, <<8182,8188>>, <<8450,8450>>, <<8455,8455>>, <<8458,8467>>, <<8469,8469>>,
     <<8473,8477>>, <<8484,8484>>, <<8486,8486>>, <<8488,8488>>, <<8490,8493>>, <<8495,8500>>,
     <<8505,8505>>, <<8508,8511>>, <<8517,8521>>, <<8526,8526>>, <<8544,8575>>, <<8579,8580>>,
     <<9398,9449>>, <<11264,11387>>, <<11390,11492>>, <<11499,11502>>, <<11506,11507>>, <<11520,11557>>,
     <<11559,11559>>, <<11565,11565>>, <<42560,42605>>, <<42624,42651>>, <<42786,42863>>, <<42865,42887>>,
     <<42891,42894>>, <<42896,42954>>, <<42960,42961>>, <<42963,42963>>, <<42965,42969>>, <<42997,42998>>,
     <<43002,43002>>, <<43824,43866>>, <<43872,43880>>, <<43888,43967>>, <<64256,64262>>, <<64275,64279>>,
     <<65313,65338>>, <<65345,65370>>, <<66560,66639>>, <<66736,66771>>, <<66776,66811>>, <<66928,66938>>,
     <<66940,66954>>, <<66956,66962>>, <<66964,66965>>, <<66967,66977>>, <<66979,66993>>, <<66995,67001>>,
     <<67003,67004>>, <<68736,68786>>, <<68800,68850>>, <<71840,71903>>, <<93760,93823>>, <<119808,119892>>,
     <<119894,119964>>, <<119966,119967>>, <<119970,119970>>, <<119973,119974>>, <<119977,119980>>, <<119982,119993>>,
     <<119995,119995>>, <<119997,120003>>, <<120005,120069>>, <<120071,120074>>, <<120077,120084>>, <<120086,120092>>,
     <<120094,120121>>, <<120123,120126>>, <<120128,120132>>, <<120134,120134>>, <<120138,120144>>, <<120146,120485>>,
     <<120488,120512>>, <<120514,120538>>, <<120540,120570>>, <<120572,120596>>, <<120598,120628>>, <<120630,120654>>,
     <<120656,120686>>, <<120688,120712>>, <<120714,120744>>, <<120746,120770>>, <<120772,120779>>, <<122624,122633>>,
     <<122635,122654>>, <<125184,125251>>, <<127280,127305>>, <<127312,127337>>, <<127344,127369>>}

InRanges(c, ranges) == \E r \in ranges : r[1] <= c /\ c <= r[2]
IsSpace(c) == InRanges(c, WhitespaceRanges)
IsCaseIgnorable(c) == InRanges(c, CaseIgnorableRanges)
\* asked only about characters that are not case-ignorable
IsCased(c) == InRanges(c, CasedRanges)

\* the lower-case form of every character but capital sigma: one character,
\* or two for U+0130 (capital I with dot above)
ToLowerFull(c) ==
    IF c < 128 THEN (IF 65 <= c /\ c <= 90 THEN <<c + 32>> ELSE <<c>>)
    ELSE IF c = 304 THEN <<105, 775>>
    ELSE LET hits == {r \in LowerRanges :
                        r[1] <= c /\ c <= r[2] /\ (c - r[1]) % r[3] = 0}
         IN  IF hits = {} THEN <<c>>
             ELSE <<c + (CHOOSE r \in hits : TRUE)[4]>>

\* the nearest position at or before j / at or after j that holds a
\* character which is not case-ignorable (0, Len(s) + 1: there is none)
RECURSIVE PrevNotIgnorable(_, _)
PrevNotIgnorable(s, j) ==
    IF j = 0 THEN 0
    ELSE IF IsCaseIgnorable(s[j]) THEN PrevNotIgnorable(s, j - 1) ELSE j
RECURSIVE NextNotIgnorable(_, _)
NextNotIgnorable(s, j) ==
    IF j > Len(s) THEN j
    ELSE IF IsCaseIgnorable(s[j]) THEN NextNotIgnorable(s, j + 1) ELSE j

\* capital sigma (U+03A3) at s[i] lowers to final sigma (U+03C2) when a
\* cased character stands before it and none after it, case-ignorable
\* characters skipped; to small sigma (U+03C3) otherwise
LowerSigma(s, i) ==
    LET before == PrevNotIgnorable(s, i - 1)
        after == NextNotIgnorable(s, i + 1)
    IN  IF /\ before > 0
           /\ IsCased(s[before])
           /\ (after > Len(s) \/ ~ IsCased(s[after]))
        THEN 962 ELSE 963

RECURSIVE LowerFrom(_, _)
LowerFrom(s, i) ==
    IF i > Len(s) THEN <<>>
    ELSE (IF s[i] = 931 THEN <<LowerSigma(s, i)>> ELSE ToLowerFull(s[i]))
         \o LowerFrom(s, i + 1)
\* str.lower(): an all-ASCII string is lowered in place, letter by letter
Lower(s) ==
    IF \A i \in 1..Len(s) : s[i] < 128
    THEN [i \in 1..Len(s) |-> IF 65 <= s[i] /\ s[i] <= 90 THEN s[i] + 32 ELSE s[i]]
    ELSE LowerFrom(s, 1)

RECURSIVE LStrip(_)
LStrip(s) == IF s # <<>> /\ IsSpace(Head(s)) THEN LStrip(Tail(s)) ELSE s
RECURSIVE RStrip(_)
RStrip(s) ==
    IF s # <<>> /\ IsSpace(s[Len(s)])
    THEN RStrip(SubSeq(s, 1, Len(s) - 1)) ELSE s
\* str.strip()
Strip(s) == RStrip(LStrip(s))

\* line 66: user_hash = hash.lower().strip()
Normalize(hash) == Strip(Lower(hash))

Sha1HexLen == 40
\* line 67, mutated: the length test lets shorter strings through
IsValidHash_short(h) == h # <<>> /\ Len(h) <= Sha1HexLen
\* line 67: the request goes on iff not (not user_hash or len(user_hash) != 40)
IsValidHash(h) == ~ (h = <<>> \/ Len(h) # Sha1HexLen)

(***************************************************************************)
(* sha1(leaked.encode()).hexdigest().  The 20 bytes of the digest are      *)
(* tabulated for the plaintext identifiers of the model (they are the real *)
(* SHA-1 digests); hexdigest() writes each byte as two lower-case hex      *)
(* digits.                                                                 *)
(***************************************************************************)
Plain1 == "1234567890123456"
Plain2 == "4111111111111111"
Plain3 == "9999999999999999"
CorpusPlain == {Plain1, Plain2}   \* identifiers that corpora may list

Sha1Digest(p) ==
    CASE p = Plain1 ->  \* deed2a88e73dccaa30a9e6e296f62be238be4ade
           <<222, 237, 42, 136, 231, 61, 204, 170, 48, 169,
             230, 226, 150, 246, 43, 226, 56, 190, 74, 222>>
      [] p = Plain2 ->  \* 68bfb396f35af3876fc509665b3dc23a0930aab1
           <<104, 191, 179, 150, 243, 90, 243, 135, 111, 197,
             9, 102, 91, 61, 194, 58, 9, 48, 170, 177>>
      [] p = Plain3 ->  \* 70b6585d94d3f70fdac94f00a434032b52794be1
           <<112, 182, 88, 93, 148, 211, 247, 15, 218, 201,
             79, 0, 164, 52, 3, 43, 82, 121, 75, 225>>

\* the character of a hex digit: "0".."9", "a".."f"
HexChar(n) == IF n < 10 THEN 48 + n ELSE 87 + n
HexDigest(bytes) ==
    [i \in 1..(2 * Len(bytes)) |->
        IF i % 2 = 1 THEN HexChar(bytes[(i + 1) \div 2] \div 16)
        ELSE HexChar(bytes[i \div 2] % 16)]
\* the hex digests of the identifiers of the model, computed once
Sha1HexOf == [p \in {Plain1, Plain2, Plain3} |-> HexDigest(Sha1Digest(p))]
Sha1Hex(p) == Sha1HexOf[p]

(***************************************************************************)
(* The corpus: breaches.json and load_breach_data.                         *)
(***************************************************************************)
Sources == {"BankLeak2023", "ShopLeak2024"}

\* the record stored under a source name, but for its leaked_details
Meta(name) ==
    IF name = "BankLeak2023"
    THEN [date |-> Some("2023-01-01"), risk_level |-> Some("high"),
          description |-> Some("card numbers")]
    ELSE [date |-> None, risk_level |-> Some("low"), description |-> None]

\* leaked_details: missing, or a list of identifiers (repeats allowed)
LeakedChoices == {None} \cup {Some(l) : l \in SeqUpTo(CorpusPlain, MaxLeaked)}

Item(name, leaked) ==
    [name |-> name,
     info |-> [date |-> Meta(name).date, risk_level |-> Meta(name).risk_level,
               description |-> Meta(name).description,
               leaked_details |-> leaked]]

\* every mapping from distinct source names to records, in every key order
Corpora ==
    {<<>>}
    \cup {<<Item(n, l)>> : n \in Sources, l \in LeakedChoices}
    \cup {c \in {<<Item(n1, l1), Item(n2, l2)>> :
                    n1 \in Sources, n2 \in Sources,
                    l1 \in LeakedChoices, l2 \in LeakedChoices} :
            c[1].name # c[2].name}

\* the states of breaches.json: no such file, text json.load cannot parse,
\* or a JSON object holding a corpus
Files ==
    {[kind |-> "absent", content |-> <<>>],
     [kind |-> "malformed", content |-> <<>>]}
    \cup {[kind |-> "json", content |-> c] : c \in Corpora}

\* lines 31..36: what load_breach_data does with the file.  Only
\* FileNotFoundError is caught; json.load's JSONDecodeError propagates.
LoadResult(f) ==
    CASE f.kind = "json" -> [raised |-> FALSE, value |-> f.content]
      [] f.kind = "absent" -> [raised |-> FALSE, value |-> <<>>]
      [] f.kind = "malformed" -> [raised |-> TRUE, value |-> <<>>]

(***************************************************************************)
(* check_breach_hash, lines 58..88.                                        *)
(***************************************************************************)
\* lines 75..80: the entry appended for a matching identifier
Entry(breach_name, breach_info) ==
    [source |-> breach_name,
     date |-> breach_info.date,
     risk_level |-> breach_info.risk_level,
     description |-> breach_info.description]

\* line 74, mutated: the comparison is inverted
HashMatches_inverted(leaked_hash, h) == leaked_hash # h
\* line 74: leaked_hash == user_hash
HashMatches(leaked_hash, h) == leaked_hash = h

\* lines 72..80: the inner loop over one record's leaked_details; one
\* entry is appended for every identifier whose digest equals the query
RECURSIVE ScanLeaked(_, _, _, _)
ScanLeaked(breach_name, breach_info, leaked, h) ==
    IF leaked = <<>> THEN <<>>
    ELSE (IF HashMatches(Sha1Hex(Head(leaked)), h)
          THEN <<Entry(breach_name, breach_info)>> ELSE <<>>)
         \o ScanLeaked(breach_name, breach_info, Tail(leaked), h)

\* lines 70..80, mutated: the corpus is walked from its last key to its first
RECURSIVE FindBreaches_reversed(_, _)
FindBreaches_reversed(db, h) ==
    IF db = <<>> THEN <<>>
    ELSE FindBreaches_reversed(Tail(db), h)
         \o ScanLeaked(Head(db).name, Head(db).info,
                       Get(Head(db).info.leaked_details, <<>>), h)

\* lines 70..80: the outer loop over BREACH_DATABASE.items()
RECURSIVE FindBreaches(_, _)
FindBreaches(db, h) ==
    IF db = <<>> THEN <<>>
    ELSE ScanLeaked(Head(db).name, Head(db).info,
                    Get(Head(db).info.leaked_details, <<>>), h)
         \o FindBreaches(Tail(db), h)

\* lines 84..85, mutated: the email test is dropped
ShouldNotify_noEmailTest(found, email) == found # <<>>
\* lines 84..85: if found_breaches: if email:
ShouldNotify(found, email) == found # <<>> /\ Truthy(email)

\* lines 87..88: the value returned
BuildResult(found) ==
    IF found # <<>>
    THEN [kind |-> "result", breached |-> TRUE, breaches |-> Some(found)]
    ELSE [kind |-> "result", breached |-> FALSE, breaches |-> None]

\* raise HTTPException(status_code, detail)
HttpError(status, detail) ==
    [kind |-> "http_error", status |-> status, detail |-> detail]
\* an exception no handler catches: the server answers 500
Unhandled(exc) == [kind |-> "unhandled", status |-> 500, detail |-> exc]
NoResponse == [kind |-> "none"]

NoRequest == [hash |-> <<>>, email |-> None]

(***************************************************************************)
(* Inputs of check_breach_hash.                                            *)
(***************************************************************************)
\* an ASCII string in upper case
Upper(s) == [i \in 1..Len(s) |-> IF 97 <= s[i] /\ s[i] <= 122 THEN s[i] - 32 ELSE s[i]]
Repeat(c, n) == [i \in 1..n |-> c]

HashInputs ==
    {Sha1Hex(Plain1), Sha1Hex(Plain2), Sha1Hex(Plain3),
     \* " \x0b" + upper-case digest + "\x1f\xa0\u3000\n"
     <<32, 11>> \o Upper(Sha1Hex(Plain1)) \o <<31, 160, 12288, 10>>,
     \* 39 times "A", then capital sigma: 40 characters, not hex
     Repeat(65, Sha1HexLen - 1) \o <<931>>,
     <<>>,                                             \* ""
     <<32, 9>>,                                        \* " \t"
     <<110, 111, 116, 45, 97, 45, 100, 105, 103, 101, 115, 116>>,  \* "not-a-digest"
     Sha1Hex(Plain1) \o <<48>>,                        \* digest + "0": 41
     SubSeq(Sha1Hex(Plain2), 1, Sha1HexLen - 1) \o <<32>>,  \* 39 once stripped
     \* "İ" + 39 times "a": 40 characters, 41 once lowered
     <<304>> \o Repeat(97, Sha1HexLen - 1)}

EmailInputs == {None, Some(""), Some("user@example.com")}

(***************************************************************************)
(* Initial state: the process starts importing main.py.                    *)
(***************************************************************************)
InitVars(f, key) ==
    /\ file = f
    /\ proc = "starting"
    /\ BREACH_DATABASE = <<>>
    /\ env_key = key
    /\ pc = "idle"
    /\ req = NoRequest
    /\ user_hash = <<>>
    /\ found_breaches = <<>>
    /\ notified = <<>>
    /\ resp = NoResponse
    /\ last_ok = None
    /\ sreq = None
    /\ ai_calls = <<>>
    /\ sresp = NoResponse

\* line 38: BREACH_DATABASE = load_breach_data() at import
LoadBreachData ==
    /\ proc = "starting"
    /\ IF LoadResult(file).raised
       THEN /\ proc' = "crashed"
            /\ UNCHANGED BREACH_DATABASE
       ELSE /\ proc' = "running"
            /\ BREACH_DATABASE' = LoadResult(file).value
    /\ UNCHANGED <<file, env_key>>
    /\ UNCHANGED checkVars
    /\ UNCHANGED sumVars

\* lines 66..80: normalise and validate the hash, then scan the corpus.
\* The handler has no await: a call runs to its end before another handler
\* starts.  The last4 argument (line 60) is never read.
CheckBreachHash(hash, email) ==
    /\ proc = "running"
    /\ pc = "idle"
    /\ req' = [hash |-> hash, email |-> email]
    /\ user_hash' = Normalize(hash)
    /\ notified' = <<>>
    /\ IF IsValidHash(user_hash')
       THEN /\ found_breaches' = FindBreaches(BREACH_DATABASE, user_hash')
            /\ resp' = NoResponse
            /\ pc' = "scanned"
       ELSE /\ found_breaches' = <<>>
            /\ resp' = HttpError(400, "Invalid SHA-1 hash provided.")
            /\ pc' = "done"
    /\ UNCHANGED <<file, proc, BREACH_DATABASE, env_key, last_ok>>
    /\ UNCHANGED sumVars

\* lines 84..86 and 41..49: send_breach_notification(email, found_breaches).
\* Its prints can raise (a closed stdout, text the stream cannot encode);
\* nothing in check_breach_hash catches that.
Notify(printOk) ==
    /\ pc = "scanned"
    /\ IF ShouldNotify(found_breaches, req.email)
       THEN /\ notified' = Append(notified,
                  [email |-> req.email, breaches |-> found_breaches,
                   raised |-> ~ printOk])
            /\ IF printOk
               THEN /\ pc' = "notified"
                    /\ UNCHANGED resp
               ELSE /\ pc' = "done"
                    /\ resp' = Unhandled("send_breach_notification raised")
       ELSE /\ pc' = "notified"
            /\ UNCHANGED <<notified, resp>>
    /\ UNCHANGED <<file, proc, BREACH_DATABASE, env_key, req, user_hash,
                   found_breaches, last_ok>>
    /\ UNCHANGED sumVars

\* lines 87..88: return the result
Return ==
    /\ pc = "notified"
    /\ resp' = BuildResult(found_breaches)
    /\ last_ok' = Some([hash |-> user_hash, breaches |-> found_breaches])
    /\ pc' = "done"
    /\ UNCHANGED <<file, proc, BREACH_DATABASE, env_key, req, user_hash,
                   found_breaches, notified>>
    /\ UNCHANGED sumVars

\* the answer (the result, or the error response) has gone to the client:
\* the call's arguments and locals are gone, the handler can run again
Finish ==
    /\ pc = "done"
    /\ pc' = "idle"
    /\ req' = NoRequest
    /\ user_hash' = <<>>
    /\ found_breaches' = <<>>
    /\ notified' = <<>>
    /\ resp' = NoResponse
    /\ UNCHANGED <<file, proc, BREACH_DATABASE, env_key, last_ok>>
    /\ UNCHANGED sumVars

(***************************************************************************)
(* summarize_breach_with_ai, lines 92..139.                                *)
(***************************************************************************)
KeyInputs == {None, Some(""), Some("test-key")}

\* the breach dicts a client may send; a field is None when its key is missing
SumEntries ==
    {[source |-> Some("BankLeak2023"), date |-> Some("2023-01-01"),
      risk_level |-> Some("high"), description |-> Some("card numbers")],
     [source |-> Some("ShopLeak2024"), date |-> None,
      risk_level |-> Some("low"), description |-> None],
     [source |-> None, date |-> None, risk_level |-> None, description |-> None]}

\* request.get("breach_data"): the key is missing, or holds a list
BreachDataInputs == {None} \cup {Some(l) : l \in SeqUpTo(SumEntries, MaxBreaches)}

\* JSON bodies the AI service may answer with.  A key that is missing is None.
Part(text) == [text |-> text]
Content(parts) == [parts |-> parts]
Candidate(content) == [content |-> content]
Result(candidates) == [candidates |-> candidates]

BodyWithText(t) == Result(Some(<<Candidate(Some(Content(Some(<<Part(Some(t))>>))))>>))
BodySummary == BodyWithText("## What happened")
BodyEmptyText == BodyWithText("")
BodyNoText == Result(Some(<<Candidate(Some(Content(Some(<<Part(None)>>))))>>))
BodyNoParts == Result(Some(<<Candidate(Some(Content(None)))>>))
BodyEmptyParts == Result(Some(<<Candidate(Some(Content(Some(<<>>))))>>))
BodyNoContent == Result(Some(<<Candidate(None)>>))
BodyEmptyCandidates == Result(Some(<<>>))
BodyNoCandidates == Result(None)

Bodies ==
    {BodySummary, BodyEmptyText, BodyNoText, BodyNoParts, BodyEmptyParts,
     BodyNoContent, BodyEmptyCandidates, BodyNoCandidates}

\* what requests.post meets: no connection, an HTTP error status, a 200
\* whose body is not JSON (resp.json() raises; whether that exception is a
\* RequestException depends on the installed requests), or a 200 with JSON
AIReplies ==
    {[kind |-> "unreachable"], [kind |-> "status", code |-> 500],
     [kind |-> "status", code |-> 429]}
    \cup {[kind |-> "not_json", is_request_exception |-> b] : b \in BOOLEAN}
    \cup {[kind |-> "json", body |-> b] : b \in Bodies}

\* lines 100..108: one block of the prompt per breach, numbered from 1
BreachDetailsText(breach_data) ==
    [i \in 1..Len(breach_data) |->
        [n |-> i,
         source |-> Get(breach_data[i].source, "N/A"),
         date |-> Get(breach_data[i].date, "N/A"),
         risk_level |-> Get(breach_data[i].risk_level, "N/A"),
         description |-> Get(breach_data[i].description, "N/A")]]

\* line 94: if not api_key
HasApiKey(key) == Truthy(key)

\* line 97, mutated: only a missing key is refused, an empty list goes on
HasBreachData_noneOnly(breach_data) == breach_data # None
\* line 97: if not breach_data (None and [] are falsy)
HasBreachData(breach_data) == breach_data # None /\ breach_data[1] # <<>>

\* lines 133..137: dig the text out of the parsed answer
ExtractOutcome(result) ==
    LET candidates == Get(result.candidates, <<Candidate(None)>>)
    IN  IF candidates = <<>> THEN Unhandled("IndexError")
        ELSE
        LET content == Get(candidates[1].content, Content(None))
            parts == Get(content.parts, <<Part(None)>>)
        IN  IF parts = <<>> THEN Unhandled("IndexError")
            ELSE
            LET text == Get(parts[1].text, "")
            IN  IF text = ""
                THEN HttpError(500, "AI model returned empty response.")
                ELSE [kind |-> "summary", summary |-> text]

\* lines 129..139: the outcome of the try block for each answer (the 503
\* detail also carries the text of the exception caught)
AIOutcome(ai) ==
    CASE ai.kind = "unreachable" ->
           HttpError(503, "Error communicating with AI service")
      [] ai.kind = "status" ->
           HttpError(503, "Error communicating with AI service")
      [] ai.kind = "not_json" ->
           IF ai.is_request_exception
           THEN HttpError(503, "Error communicating with AI service")
           ELSE Unhandled("ValueError")
      [] ai.kind = "json" -> ExtractOutcome(ai.body)

SummarizeBreachWithAI(breach_data, ai) ==
    /\ proc = "running"
    /\ pc = "idle"
    /\ IF ~ HasApiKey(env_key)
       THEN /\ sreq' = Some([breach_data |-> breach_data, reply |-> None])
            /\ ai_calls' = <<>>
            /\ sresp' = HttpError(500, "Google API key not configured.")
       ELSE IF ~ HasBreachData(breach_data)
       THEN /\ sreq' = Some([breach_data |-> breach_data, reply |-> None])
            /\ ai_calls' = <<>>
            /\ sresp' = HttpError(400, "No breach data provided.")
       ELSE /\ sreq' = Some([breach_data |-> breach_data, reply |-> Some(ai)])
            /\ ai_calls' = <<[key |-> env_key[1],
                              breaches |-> BreachDetailsText(breach_data[1])]>>
            /\ sresp' = AIOutcome(ai)
    /\ UNCHANGED <<file, proc, BREACH_DATABASE, env_key>>
    /\ UNCHANGED checkVars

Init == \E f \in Files : InitVars(f, None)

Next ==
    \/ LoadBreachData
    \/ \E hash \in HashInputs, email \in EmailInputs : CheckBreachHash(hash, email)
    \/ \E printOk \in BOOLEAN : Notify(printOk)
    \/ Return
    \/ Finish

Spec == Init /\ [][Next]_vars

\* The two handlers share no state: check_breach_hash reads BREACH_DATABASE
\* only, summarize_breach_with_ai reads GOOGLE_API_KEY only.  Spec is the
\* load and the check handler over every corpus; SpecSum is the load and
\* the summarize handler under every setting of GOOGLE_API_KEY.
InitSum ==
    \E f \in {g \in Files : g.kind # "json"}, key \in KeyInputs : InitVars(f, key)

NextSum ==
    \/ LoadBreachData
    \/ \E breach_data \in BreachDataInputs, ai \in AIReplies :
          SummarizeBreachWithAI(breach_data, ai)

SpecSum == InitSum /\ [][NextSum]_vars

(***************************************************************************)
(* Properties.                                                             *)
(***************************************************************************)
\* a check_breach_hash call has ended (with a result or with an error)
CallEnded == pc = "done"
\* a check_breach_hash call has begun (it is running, or it has ended)
CallBegun == pc # "idle"
\* the call returned {"breached": True, "breaches": [...]}
ReturnedBreached == CallEnded /\ resp.kind = "result" /\ resp.breached
\* the leaked_details of the i-th record of the corpus
LeakedOf(i) == Get(BREACH_DATABASE[i].info.leaked_details, <<>>)
\* the position of a source name in the corpus' iteration order
PosOf(name) ==
    CHOOSE i \in 1..Len(BREACH_DATABASE) : BREACH_DATABASE[i].name = name
\* some record of the corpus lists an identifier whose digest is d
InCorpus(d) ==
    \E i \in 1..Len(BREACH_DATABASE) :
        \E k \in 1..Len(LeakedOf(i)) : Sha1Hex(LeakedOf(i)[k]) = d

\* C1: whenever a call whose hash is the SHA-1 hex digest of an identifier
\* listed in record r of the loaded corpus has ended, it returned
\* breached = true with a breach list holding an entry whose source is r.
C1_Completeness ==
    \A i \in 1..Len(BREACH_DATABASE) :
        \A k \in 1..Len(LeakedOf(i)) :
            (CallEnded /\ req.hash = Sha1Hex(LeakedOf(i)[k]))
            => /\ resp.kind = "result"
               /\ resp.breached
               /\ \E j \in 1..Len(resp.breaches[1]) :
                      resp.breaches[1][j].source = BREACH_DATABASE[i].name

\* C2: a returned breach list never holds two entries with the same source.
C2_NoDuplicateSources ==
    ReturnedBreached
    => \A i \in 1..Len(resp.breaches[1]) :
           \A j \in 1..Len(resp.breaches[1]) :
               i # j => resp.breaches[1][i].source # resp.breaches[1][j].source

\* C3: a call whose normalised hash has length 40 and is the digest of no
\* identifier of the corpus returns exactly {breached: false}, without a
\* breach list; and every entry of a returned breach list is for a record
\* that lists an identifier whose digest is the normalised hash.
C3_Soundness ==
    /\ (CallEnded /\ Len(Normalize(req.hash)) = Sha1HexLen
          /\ ~ InCorpus(Normalize(req.hash)))
       => resp = [kind |-> "result", breached |-> FALSE, breaches |-> None]
    /\ ReturnedBreached
       => \A j \in 1..Len(resp.breaches[1]) :
            \E i \in 1..Len(BREACH_DATABASE) :
               /\ BREACH_DATABASE[i].name = resp.breaches[1][j].source
               /\ \E k \in 1..Len(LeakedOf(i)) :
                      Sha1Hex(LeakedOf(i)[k]) = Normalize(req.hash)

\* C3 witness: a well-formed query against a corpus that lists identifiers,
\* none with that digest, has been answered {breached: false}.
C3_Witness ==
    /\ CallEnded
    /\ req.hash = Sha1Hex(Plain3)
    /\ Len(BREACH_DATABASE) = 2
    /\ InCorpus(Sha1Hex(Plain1))
    /\ resp.kind = "result" /\ ~ resp.breached

\* C4: a call whose hash, lowercased and stripped, has a length other than
\* 40 (empty included) ends at once with the 400 error: nothing was matched
\* and send_breach_notification was not invoked, whatever the corpus and
\* the email.
C4_InvalidRejected ==
    (CallBegun /\ Len(Normalize(req.hash)) # Sha1HexLen)
    => /\ pc = "done"
       /\ resp.kind = "http_error" /\ resp.status = 400
       /\ found_breaches = <<>>
       /\ notified = <<>>

\* C4 witness: a 41-character hash that starts with the digest of a listed
\* identifier, sent with an email, was refused.
C4_Witness ==
    /\ CallEnded
    /\ Len(req.hash) = Sha1HexLen + 1
    /\ InCorpus(SubSeq(req.hash, 1, Sha1HexLen))
    /\ Truthy(req.email)
    /\ resp.kind = "http_error"

\* C5 as stated: once a call is past lines 84..86, send_breach_notification
\* was invoked exactly once, with the email and the whole match list, if
\* the match list is non-empty and an email was supplied (is not None),
\* and not at all otherwise.
C5_NotifyOnceIfSupplied ==
    (pc = "notified" \/ CallEnded)
    => IF found_breaches # <<>> /\ req.email # None
       THEN /\ Len(notified) = 1
            /\ notified[1].email = req.email
            /\ notified[1].breaches = found_breaches
       ELSE notified = <<>>

\* C5 amended: once a call is past lines 84..86, send_breach_notification
\* was invoked exactly once, with the email and the whole match list, if
\* the match list is non-empty and a non-empty email was supplied, and not
\* at all otherwise (no match, no email, or an empty email); it is never
\* invoked before the scan has ended, and a result is returned only after it.
C5_NotifyOnceIfNonEmptyEmail ==
    /\ (pc = "notified" \/ CallEnded)
       => IF found_breaches # <<>> /\ req.email # None /\ req.email # Some("")
          THEN /\ Len(notified) = 1
               /\ notified[1].email = req.email
               /\ notified[1].breaches = found_breaches
          ELSE notified = <<>>
    /\ pc = "scanned" => (notified = <<>> /\ resp.kind = "none")

\* C5 witness: a call with an email returned two matches after one
\* notification.
C5_Witness ==
    /\ ReturnedBreached
    /\ Len(found_breaches) = 2
    /\ Len(notified) = 1
    /\ ~ notified[1].raised

\* C6: when breaches.json is absent or malformed the load does not fail:
\* the process runs with an empty corpus, and every well-formed query is
\* answered {breached: false}.
C6_LoadNeverFails ==
    (proc # "starting" /\ file.kind \in {"absent", "malformed"})
    => /\ proc = "running"
       /\ BREACH_DATABASE = <<>>
       /\ (CallEnded /\ Len(Normalize(req.hash)) = Sha1HexLen)
          => resp = [kind |-> "result", breached |-> FALSE, breaches |-> None]

\* C7: when a notification was due and send_breach_notification raised, the
\* call still returned {breached: true, breaches: found_breaches}.
C7_ResultSurvivesNotifyFailure ==
    (CallEnded /\ notified # <<>> /\ notified[Len(notified)].raised)
    => resp = [kind |-> "result", breached |-> TRUE,
               breaches |-> Some(found_breaches)]

\* a summarize_breach_with_ai call has ended
SumEnded == sreq # None
\* its breach_data was missing or empty
SumNoData == sreq[1].breach_data = None \/ sreq[1].breach_data = Some(<<>>)

\* C8 as stated: a summarize call with empty or missing breach_data ends
\* with the 400 error and without contacting the AI service, whatever
\* GOOGLE_API_KEY is.
C8_NoDataAlways400 ==
    (SumEnded /\ SumNoData)
    => /\ sresp.kind = "http_error" /\ sresp.status = 400
       /\ ai_calls = <<>>

\* C8 amended: a summarize call with empty or missing breach_data ends with
\* the 400 error when GOOGLE_API_KEY is set and non-empty, and with the 500
\* "key not configured" error when it is unset or empty; in both cases the
\* AI service is not contacted.
C8_NoData400WhenKeySet ==
    (SumEnded /\ SumNoData)
    => /\ ai_calls = <<>>
       /\ IF env_key # None /\ env_key # Some("")
          THEN sresp = HttpError(400, "No breach data provided.")
          ELSE sresp = HttpError(500, "Google API key not configured.")

\* C8 witness: with the key set, a call with an empty list was refused.
C8_Witness ==
    /\ SumEnded
    /\ sreq[1].breach_data = Some(<<>>)
    /\ env_key = Some("test-key")
    /\ sresp.kind = "http_error" /\ sresp.status = 400

\* the AI service gave no usable text: it was unreachable, answered with an
\* error status, or answered JSON without text (empty text, an empty
\* candidates list, or missing parts)
NoUsableReply(ai) ==
    \/ ai.kind \in {"unreachable", "status"}
    \/ /\ ai.kind = "json"
       /\ ai.body \in {BodyEmptyText, BodyEmptyCandidates, BodyNoParts}

\* C9: with the key set and breach_data non-empty, every call that the AI
\* service could not serve with usable text ends with the 503 error.
C9_NoTextIs503 ==
    (SumEnded /\ sreq[1].reply # None /\ NoUsableReply(sreq[1].reply[1]))
    => sresp.kind = "http_error" /\ sresp.status = 503

\* C10: the entries of a returned breach list follow the corpus' iteration
\* order: an entry for record A that stands before an entry for another
\* record B means A is iterated before B; and a call about to return, for
\* the hash of the last call that returned, returns the same list.
C10_CorpusOrder ==
    /\ ReturnedBreached
       => \A i \in 1..Len(resp.breaches[1]) :
            \A j \in 1..Len(resp.breaches[1]) :
               (i < j /\ resp.breaches[1][i].source # resp.breaches[1][j].source)
               => PosOf(resp.breaches[1][i].source)
                    < PosOf(resp.breaches[1][j].source)
    /\ (pc = "notified" /\ last_ok # None /\ last_ok[1].hash = user_hash)
       => found_breaches = last_ok[1].breaches

\* C10 witness: a list with entries for both records of a two-record corpus
\* is about to be returned for the second time.
C10_Witness ==
    /\ pc = "notified"
    /\ last_ok # None
    /\ last_ok[1].hash = user_hash
    /\ \E i \in 1..Len(found_breaches) :
         \E j \in 1..Len(found_breaches) :
            found_breaches[i].source # found_breaches[j].source

====
